---------------------------- MODULE Spec2Model ----------------------------
(***************************************************************************)
(* Lab Test Extraction API (src/main.py).                                  *)
(*                                                                         *)
(* One POST /get-lab-tests request reads an upload, preprocesses the      *)
(* image, runs the text recognizer and extracts LabTest records from the  *)
(* recognized lines with two regular expressions.  A text line is a       *)
(* sequence of one-character strings.  A Python float is modelled as a    *)
(* fixed-point integer counting units of 10^-FracDigits, which is exact   *)
(* for the decimal tokens used here (they have at most FracDigits         *)
(* fractional digits and few integer digits).                             *)
(***************************************************************************)
EXTENDS Integers, Sequences, FiniteSets, TLC

(***************************************************************************)
(* Character classes of the two patterns (src/main.py:43,45).              *)
(***************************************************************************)
Lower == {"a","b","c","d","e","f","g","h","i","j","k","l","m",
          "n","o","p","q","r","s","t","u","v","w","x","y","z"}

Upper == {"A","B","C","D","E","F","G","H","I","J","K","L","M",
          "N","O","P","Q","R","S","T","U","V","W","X","Y","Z"}

Digit == {"0","1","2","3","4","5","6","7","8","9"}

\* \s
SpaceCh == {" ", "\t"}

\* [A-Za-z\s\(\)]
NameCh == Lower \cup Upper \cup SpaceCh \cup {"(", ")"}

\* [0-9\.]
NumCh == Digit \cup {"."}

\* [a-zA-Z/%]
UnitCh == Lower \cup Upper \cup {"/", "%"}

(***************************************************************************)
(* A pattern is a sequence of items.  An item matches characters of one    *)
(* class: at least lo of them, greedily as many as there are when many,    *)
(* exactly one otherwise; grp is the capture group it fills (0: none).     *)
(* An optional group (X+)? is the item X* whose capture is empty when it   *)
(* matched nothing, which is what re.findall reports for it.               *)
(***************************************************************************)
Item(cls, lo, many, grp) == [cls |-> cls, lo |-> lo, many |-> many, grp |-> grp]

Lit(c) == Item({c}, 1, FALSE, 0)

\* ([A-Za-z\s\(\)]+):\s*([0-9\.]+)\s*([a-zA-Z/%]+)?\s*\(([0-9\.]+)\s*-\s*([0-9\.]+)\)
ColonForm ==
  << Item(NameCh, 1, TRUE, 1), Lit(":"), Item(SpaceCh, 0, TRUE, 0),
     Item(NumCh, 1, TRUE, 2), Item(SpaceCh, 0, TRUE, 0),
     Item(UnitCh, 0, TRUE, 3), Item(SpaceCh, 0, TRUE, 0), Lit("("),
     Item(NumCh, 1, TRUE, 4), Item(SpaceCh, 0, TRUE, 0), Lit("-"),
     Item(SpaceCh, 0, TRUE, 0), Item(NumCh, 1, TRUE, 5), Lit(")") >>

\* Variant: the spaced form with the hyphen of the range optional (-?).
SpacedFormOptionalHyphen ==
  << Item(NameCh, 1, TRUE, 1), Item(SpaceCh, 1, TRUE, 0),
     Item(NumCh, 1, TRUE, 2), Item(SpaceCh, 1, TRUE, 0),
     Item(UnitCh, 1, TRUE, 3), Item(SpaceCh, 1, TRUE, 0),
     Item(NumCh, 1, TRUE, 4), Item(SpaceCh, 0, TRUE, 0),
     Item({"-"}, 0, FALSE, 0),
     Item(SpaceCh, 0, TRUE, 0), Item(NumCh, 1, TRUE, 5) >>

\* ([A-Za-z\s\(\)]+)\s+([0-9\.]+)\s+([a-zA-Z/%]+)\s+([0-9\.]+)\s*-\s*([0-9\.]+)
SpacedForm ==
  << Item(NameCh, 1, TRUE, 1), Item(SpaceCh, 1, TRUE, 0),
     Item(NumCh, 1, TRUE, 2), Item(SpaceCh, 1, TRUE, 0),
     Item(UnitCh, 1, TRUE, 3), Item(SpaceCh, 1, TRUE, 0),
     Item(NumCh, 1, TRUE, 4), Item(SpaceCh, 0, TRUE, 0), Lit("-"),
     Item(SpaceCh, 0, TRUE, 0), Item(NumCh, 1, TRUE, 5) >>

\* Variant: the patterns list with the spaced form first.
patternsSpacedFirst == << [form |-> "spaced", re |-> SpacedForm],
                          [form |-> "colon", re |-> ColonForm] >>

\* The patterns list, in the order the inner loop tries them.
patterns == << [form |-> "colon", re |-> ColonForm],
               [form |-> "spaced", re |-> SpacedForm] >>

(***************************************************************************)
(* The backtracking matcher behind re.findall.                             *)
(***************************************************************************)
RECURSIVE RunLen(_, _, _)
\* How many consecutive characters of line, from pos on, are in cls.
RunLen(cls, line, pos) ==
  IF pos <= Len(line) /\ line[pos] \in cls
    THEN 1 + RunLen(cls, line, pos + 1)
    ELSE 0

\* The most characters item it can take at pos.
MaxRep(it, line, pos) ==
  LET n == RunLen(it.cls, line, pos)
  IN  IF it.many THEN n ELSE IF n >= 1 THEN 1 ELSE 0

NoGroups == [g \in 1..5 |-> << >>]

RECURSIVE MatchFrom(_, _, _, _)
RECURSIVE TryLen(_, _, _, _, _)
\* The match of items k.. of pat at pos that a greedy backtracking search
\* finds first, or [ok |-> FALSE].
MatchFrom(pat, k, line, pos) ==
  IF k > Len(pat)
    THEN [ok |-> TRUE, end |-> pos, groups |-> NoGroups]
    ELSE TryLen(pat, k, line, pos, MaxRep(pat[k], line, pos))

\* Item k takes n characters, then n-1, ... down to its minimum.
TryLen(pat, k, line, pos, n) ==
  IF n < pat[k].lo
    THEN [ok |-> FALSE]
    ELSE LET r == MatchFrom(pat, k + 1, line, pos + n)
         IN  IF r.ok
               THEN IF pat[k].grp = 0
                      THEN r
                      ELSE [r EXCEPT !.groups[pat[k].grp] =
                                        SubSeq(line, pos, pos + n - 1)]
               ELSE TryLen(pat, k, line, pos, n - 1)

RECURSIVE Scan(_, _, _)
\* The non-overlapping matches of pat in line from pos on, left to right.
Scan(pat, line, pos) ==
  IF pos > Len(line)
    THEN << >>
    ELSE LET r == MatchFrom(pat, 1, line, pos)
         IN  IF r.ok
               THEN << [start |-> pos, groups |-> r.groups] >>
                      \o Scan(pat, line, IF r.end > pos THEN r.end ELSE pos + 1)
               ELSE Scan(pat, line, pos + 1)

\* re.findall(pattern, line): the tuples of groups, each with the position
\* its match starts at.
re_findall(pat, line) == Scan(pat, line, 1)

(***************************************************************************)
(* str.strip() and float(), as extract_lab_tests uses them on tokens.      *)
(***************************************************************************)
RECURSIVE LStrip(_)
LStrip(s) ==
  IF s # << >> /\ Head(s) \in SpaceCh THEN LStrip(Tail(s)) ELSE s

RECURSIVE RStrip(_)
RStrip(s) ==
  IF s # << >> /\ s[Len(s)] \in SpaceCh
    THEN RStrip(SubSeq(s, 1, Len(s) - 1))
    ELSE s

\* s.strip()
strip(s) == RStrip(LStrip(s))

\* Fractional digits a modelled float keeps.
FracDigits == 5

RECURSIVE Pow10(_)
Pow10(n) == IF n = 0 THEN 1 ELSE 10 * Pow10(n - 1)

DigitSeq == << "0","1","2","3","4","5","6","7","8","9" >>

DigitVal(c) == (CHOOSE i \in 1..10 : DigitSeq[i] = c) - 1

RECURSIVE ToNat(_)
\* The number a sequence of digits writes (0 for the empty sequence).
ToNat(ds) ==
  IF ds = << >> THEN 0
  ELSE 10 * ToNat(SubSeq(ds, 1, Len(ds) - 1)) + DigitVal(ds[Len(ds)])

RECURSIVE NatDigits(_)
\* The digits of a natural number, "0" for 0.
NatDigits(n) ==
  IF n < 10 THEN << DigitSeq[n + 1] >>
  ELSE NatDigits(n \div 10) \o << DigitSeq[(n % 10) + 1] >>

CountOf(cs, s) == Cardinality({i \in 1..Len(s) : s[i] \in cs})

\* Whether float(tok) returns: tok is digits with at most one dot and at
\* least one digit.  Anything else raises ValueError.
FloatParses(tok) ==
  /\ \A i \in 1..Len(tok) : tok[i] \in NumCh
  /\ CountOf({"."}, tok) <= 1
  /\ CountOf(Digit, tok) >= 1

\* float(tok) for a token that parses, in units of 10^-FracDigits.
float(tok) ==
  LET dot  == IF \E i \in 1..Len(tok) : tok[i] = "."
                THEN CHOOSE i \in 1..Len(tok) : tok[i] = "."
                ELSE Len(tok) + 1
      ip   == SubSeq(tok, 1, dot - 1)
      fp   == SubSeq(tok, dot + 1, Len(tok))
      kept == SubSeq(fp, 1, IF Len(fp) < FracDigits THEN Len(fp) ELSE FracDigits)
  IN  ToNat(ip) * Pow10(FracDigits) + ToNat(kept) * Pow10(FracDigits - Len(kept))

RECURSIVE DropZeros(_)
\* A digit sequence without its trailing zeros.
DropZeros(ds) ==
  IF ds # << >> /\ ds[Len(ds)] = "0"
    THEN DropZeros(SubSeq(ds, 1, Len(ds) - 1))
    ELSE ds

\* n written with at least w digits.
ZeroPad(n, w) ==
  LET ds == NatDigits(n)
  IN  [i \in 1..(IF w > Len(ds) THEN w - Len(ds) ELSE 0) |-> "0"] \o ds

\* str(v) of a float v: the shortest decimal that reads back as v, in
\* exponent notation below 1e-4 (and from 1e16 on, which no modelled float
\* reaches).
float_str(v) ==
  IF v # 0 /\ v < Pow10(FracDigits - 4)
    THEN LET sig == DropZeros(NatDigits(v))
             ex  == FracDigits + 1 - Len(NatDigits(v))
         IN  << Head(sig) >>
               \o (IF Len(sig) > 1 THEN << "." >> \o Tail(sig) ELSE << >>)
               \o << "e", "-" >> \o ZeroPad(ex, 2)
    ELSE LET ip == NatDigits(v \div Pow10(FracDigits))
             fp == DropZeros(ZeroPad(v % Pow10(FracDigits), FracDigits))
         IN  ip \o << "." >> \o (IF fp = << >> THEN << "0" >> ELSE fp)

(***************************************************************************)
(* The body of the innermost loop of extract_lab_tests, for one match.     *)
(***************************************************************************)
\* The message of the ValueError float() raises on tok.
ValueError(tok) == << "could not convert string to float", tok >>

\* Variant: float(test_value) called outside the try block as well.
FloatCallsWithValue(match) ==
  << strip(match[2]), strip(match[4]), strip(match[5]) >>

\* The tokens float() is called on outside the try block, in statement
\* order: min_range = float(match[3].strip()), then max_range.
FloatCalls(match) == << strip(match[4]), strip(match[5]) >>

\* The calls among them that raise ValueError.
BadCalls(match) ==
  {i \in 1..Len(FloatCalls(match)) : ~FloatParses(FloatCalls(match)[i])}

\* The token the first raising call is made on.
FirstBadToken(match) ==
  FloatCalls(match)[CHOOSE i \in BadCalls(match) :
                       \A j \in BadCalls(match) : i <= j]

\* Variant: the bounds formatted with :g, which drops a fraction of zero.
BioReferenceRangeG(min_range, max_range) ==
  LET g(v) == IF v % Pow10(FracDigits) = 0
                THEN NatDigits(v \div Pow10(FracDigits))
                ELSE float_str(v)
  IN  g(min_range) \o << "-" >> \o g(max_range)

\* f"{min_range}-{max_range}"
BioReferenceRange(min_range, max_range) ==
  float_str(min_range) \o << "-" >> \o float_str(max_range)

\* Variant: the comparison with the bounds made inclusive.
OutOfRangeInclusive(test_value, min_range, max_range) ==
  IF FloatParses(test_value)
    THEN float(test_value) <= min_range \/ float(test_value) >= max_range
    ELSE FALSE

\* The try/except around the comparison of the value with the bounds.
OutOfRange(test_value, min_range, max_range) ==
  IF FloatParses(test_value)
    THEN float(test_value) < min_range \/ float(test_value) > max_range
    ELSE FALSE

\* match[2].strip() if match[2] else ""
TestUnit(match) == IF match[3] # << >> THEN strip(match[3]) ELSE << >>

\* The LabTest built from a match whose bounds parse.
LabTest(match) ==
  LET test_value == strip(match[2])
      min_range  == float(strip(match[4]))
      max_range  == float(strip(match[5]))
  IN  [ test_name             |-> strip(match[1]),
        test_value            |-> test_value,
        bio_reference_range   |-> BioReferenceRange(min_range, max_range),
        test_unit             |-> TestUnit(match),
        lab_test_out_of_range |-> OutOfRange(test_value, min_range, max_range) ]

(***************************************************************************)
(* Inputs.  The recognizer's output for an image is the text on it, a      *)
(* sequence of lines; the lines below are the ones requests are run on.    *)
(***************************************************************************)
\* "Glucose: 85 mg/dL (70-99)": spec Scenario A: colon form, value inside the range
ScenarioA ==
  << "G","l","u","c","o","s","e",":"," ","8","5"," ","m","g","/","d","L",
     " ","(","7","0","-","9","9",")" >>

\* "Hemoglobin 16.5 g/dL 13.5 - 17.5": spec Scenario B: spaced form
ScenarioB ==
  << "H","e","m","o","g","l","o","b","i","n"," ","1","6",".","5"," ","g",
     "/","d","L"," ","1","3",".","5"," ","-"," ","1","7",".","5" >>

\* "WBC: 15.2 (4.5-11.0)": spec Scenario C: colon form without a unit, value above max
ScenarioC ==
  << "W","B","C",":"," ","1","5",".","2"," ","(","4",".","5","-","1","1",
     ".","0",")" >>

\* "Patient Name John": spec Scenario D: no colon, no parentheses, no hyphen
ScenarioD ==
  << "P","a","t","i","e","n","t"," ","N","a","m","e"," ","J","o","h","n" >>

\* "K: 70 (70-99)": value equal to min
LineAtMin ==
  << "K",":"," ","7","0"," ","(","7","0","-","9","9",")" >>

\* "Na 99 mM 70-99.": value equal to max, spaced form
LineAtMax ==
  << "N","a"," ","9","9"," ","m","M"," ","7","0","-","9","9","." >>

\* "pH: 6.9 (7.35-7.45)": value below min
LineBelowMin ==
  << "p","H",":"," ","6",".","9"," ","(","7",".","3","5","-","7",".","4",
     "5",")" >>

\* "Hb: 1.2.3 g (1-2)": value token that float() rejects, bounds that parse
LineBadValue ==
  << "H","b",":"," ","1",".","2",".","3"," ","g"," ","(","1","-","2",")" >>

\* "Hb: 5 g (1..2-3)": min token that float() rejects
LineBadMin ==
  << "H","b",":"," ","5"," ","g"," ","(","1",".",".","2","-","3",")" >>

\* "T 5 C 1-.": spaced form, max token is a lone dot
LineBadMax ==
  << "T"," ","5"," ","C"," ","1","-","." >>

\* "b 2 u 1-3 a: 1 u (1-2)": a spaced-form match that starts before a colon-form match
LineBothForms ==
  << "b"," ","2"," ","u"," ","1","-","3"," ","a",":"," ","1"," ","u"," ",
     "(","1","-","2",")" >>

\* "a 1 u 1-2 b 3 u 2-4": two spaced-form matches
LineTwoSpaced ==
  << "a"," ","1"," ","u"," ","1","-","2"," ","b"," ","3"," ","u"," ","2",
     "-","4" >>

\* "a:1(0-2)b:3(.-2)": a match that builds a record, then one whose min does not parse
LineGoodThenBad ==
  << "a",":","1","(","0","-","2",")","b",":","3","(",".","-","2",")" >>

\* "Non-fasting sample": a hyphen, no numeric range
LineHyphen ==
  << "N","o","n","-","f","a","s","t","i","n","g"," ","s","a","m","p","l",
     "e" >>

\* "Hb (A1c): 5.6 % (4.0-5.6)": parentheses inside the name
LineParenName ==
  << "H","b"," ","(","A","1","c",")",":"," ","5",".","6"," ","%"," ","(",
     "4",".","0","-","5",".","6",")" >>

\* "y: .5 (.25-1.50)": bounds with no leading digit and a trailing zero
LineZeros ==
  << "y",":"," ",".","5"," ","(",".","2","5","-","1",".","5","0",")" >>

\* "z: 1 (0.00001-2)": a bound below 1e-4
LineTiny ==
  << "z",":"," ","1"," ","(","0",".","0","0","0","0","1","-","2",")" >>

\* "LDL 100 mg 130": the spaced form without the hyphen of the range
LineNoHyphen ==
  << "L","D","L"," ","1","0","0"," ","m","g"," ","1","3","0" >>

\* "": an empty line
LineEmpty == << >>

Lines ==
  { ScenarioA, ScenarioB, ScenarioC, ScenarioD,
    LineAtMin, LineAtMax, LineBelowMin, LineBadValue,
    LineBadMin, LineBadMax, LineBothForms, LineTwoSpaced,
    LineGoodThenBad, LineHyphen, LineParenName, LineZeros,
    LineTiny, LineNoHyphen, LineEmpty }

\* Most lines on one image.
MaxLines == 2

\* The texts an image can carry: up to MaxLines lines out of ls.
Texts(ls) == UNION { [1..n -> ls] : n \in 0..MaxLines }

\* An upload whose read fails, one whose bytes are no image, one whose image
\* the recognizer fails on, and the images that carry text.
Unreadable == [readable |-> FALSE, decodable |-> FALSE, legible |-> FALSE, text |-> << >>]

Undecodable == [readable |-> TRUE, decodable |-> FALSE, legible |-> FALSE, text |-> << >>]

Illegible == [readable |-> TRUE, decodable |-> TRUE, legible |-> FALSE, text |-> << >>]

ImageOf(t) == [readable |-> TRUE, decodable |-> TRUE, legible |-> TRUE, text |-> t]

Uploads(ls) == {Unreadable, Undecodable, Illegible} \cup {ImageOf(t) : t \in Texts(ls)}

\* The lines of the two-request specification.
ConcLines == {LineBothForms, LineGoodThenBad}

(***************************************************************************)
(* State: one frame of get_lab_tests per request in flight.                *)
(***************************************************************************)
VARIABLES
  upload,        \* the file each request uploads
  pc,            \* where each invocation of get_lab_tests is
  contents,      \* contents = await file.read()
  processed_img, \* processed_img = preprocess_image(contents)
  results,       \* results = reader.readtext(processed_img, detail=0)
  lab_tests,     \* the list extract_lab_tests builds
  line_idx,      \* position of the loop over text_results
  pat_idx,       \* position of the loop over patterns
  matches,       \* matches = re.findall(pattern, line)
  match_idx,     \* position of the loop over matches
  exc,           \* the exception the invocation caught, if any
  response,      \* the responses sent for the request, in order
  ran,           \* history: the stages the invocation started, in order
  origin         \* history: for each record of lab_tests, the match it is from

vars == << upload, pc, contents, processed_img, results, lab_tests, line_idx,
           pat_idx, matches, match_idx, exc, response, ran, origin >>

Requests == DOMAIN pc

None == [none |-> TRUE]

NoException == [stage |-> "", message |-> << >>]

(***************************************************************************)
(* The envelopes get_lab_tests returns.                                    *)
(***************************************************************************)
\* test.dict()
dict(test) == [f \in DOMAIN test |-> test[f]]

\* Variant: the records serialized newest first.
SuccessEnvelopeReversed(recognized, tests) ==
  [ status          |-> 200,
    is_success      |-> TRUE,
    recognized_text |-> recognized,
    data            |-> [i \in 1..Len(tests) |-> dict(tests[Len(tests) + 1 - i])] ]

SuccessEnvelope(recognized, tests) ==
  [ status          |-> 200,
    is_success      |-> TRUE,
    recognized_text |-> recognized,
    data            |-> [i \in 1..Len(tests) |-> dict(tests[i])] ]

\* Variant: the error returned as a plain dict, which is sent with status 200.
FailureEnvelopeDefaultStatus(message) ==
  [ status |-> 200, is_success |-> FALSE, error |-> message ]

FailureEnvelope(message) ==
  [ status |-> 500, is_success |-> FALSE, error |-> message ]

\* except Exception as e: return JSONResponse(status_code=500, ...)
Raise(r, stage, message) ==
  /\ exc' = [exc EXCEPT ![r] = [stage |-> stage, message |-> message]]
  /\ response' = [response EXCEPT ![r] = Append(@, FailureEnvelope(message))]
  /\ pc' = [pc EXCEPT ![r] = "done"]

\* preprocess_image: the bytes decoded, grayed, thresholded and opened; the
\* binary image carries the text of the upload.
preprocess_image(bytes) == [binary |-> TRUE, legible |-> bytes.legible, text |-> bytes.text]

\* Variant: lab_tests as a module-level list, which an invocation finds as
\* another invocation left it.
SharedLabTests(r) ==
  IF Requests \ {r} = {}
    THEN << >>
    ELSE lab_tests[CHOOSE q \in Requests \ {r} : TRUE]

\* lab_tests = [] at the start of extract_lab_tests.
NewLabTests(r) == << >>

(***************************************************************************)
(* get_lab_tests, one action per statement.                                *)
(***************************************************************************)
\* contents = await file.read()
ReadUpload(r) ==
  /\ pc[r] = "read"
  /\ ran' = [ran EXCEPT ![r] = Append(@, "read")]
  /\ \/ /\ upload[r].readable
        /\ contents' = [contents EXCEPT ![r] = upload[r]]
        /\ pc' = [pc EXCEPT ![r] = "preprocess"]
        /\ UNCHANGED << exc, response >>
     \/ /\ ~upload[r].readable
        /\ Raise(r, "read", << "read failed" >>)
        /\ UNCHANGED contents
  /\ UNCHANGED << upload, processed_img, results, lab_tests, line_idx, pat_idx,
                  matches, match_idx, origin >>

\* processed_img = preprocess_image(contents); cv2.imdecode returns None on
\* bytes that are no image and cv2.cvtColor raises on None.
Preprocess(r) ==
  /\ pc[r] = "preprocess"
  /\ ran' = [ran EXCEPT ![r] = Append(@, "preprocess")]
  /\ \/ /\ contents[r].decodable
        /\ processed_img' = [processed_img EXCEPT ![r] = preprocess_image(contents[r])]
        /\ pc' = [pc EXCEPT ![r] = "recognize"]
        /\ UNCHANGED << exc, response >>
     \/ /\ ~contents[r].decodable
        /\ Raise(r, "preprocess", << "cv2.error" >>)
        /\ UNCHANGED processed_img
  /\ UNCHANGED << upload, contents, results, lab_tests, line_idx, pat_idx,
                  matches, match_idx, origin >>

\* results = reader.readtext(processed_img, detail=0)
Recognize(r) ==
  /\ pc[r] = "recognize"
  /\ ran' = [ran EXCEPT ![r] = Append(@, "recognize")]
  /\ \/ /\ processed_img[r].legible
        /\ results' = [results EXCEPT ![r] = processed_img[r].text]
        /\ pc' = [pc EXCEPT ![r] = "extract"]
        /\ UNCHANGED << exc, response >>
     \/ /\ ~processed_img[r].legible
        /\ Raise(r, "recognize", << "recognizer failed" >>)
        /\ UNCHANGED results
  /\ UNCHANGED << upload, contents, processed_img, lab_tests, line_idx, pat_idx,
                  matches, match_idx, origin >>

\* lab_tests = extract_lab_tests(results): the call, up to the first line.
ExtractStart(r) ==
  /\ pc[r] = "extract"
  /\ ran' = [ran EXCEPT ![r] = Append(@, "extract")]
  /\ lab_tests' = [lab_tests EXCEPT ![r] = NewLabTests(r)]
  /\ origin' = [origin EXCEPT ![r] = << >>]
  /\ line_idx' = [line_idx EXCEPT ![r] = 1]
  /\ pat_idx' = [pat_idx EXCEPT ![r] = 1]
  /\ pc' = [pc EXCEPT ![r] = "for_pattern"]
  /\ UNCHANGED << upload, contents, processed_img, results, matches, match_idx,
                  exc, response >>

\* for pattern in patterns: matches = re.findall(pattern, line)
ForPattern(r) ==
  /\ pc[r] = "for_pattern"
  /\ line_idx[r] <= Len(results[r])
  /\ matches' = [matches EXCEPT ![r] =
                   re_findall(patterns[pat_idx[r]].re, results[r][line_idx[r]])]
  /\ match_idx' = [match_idx EXCEPT ![r] = 1]
  /\ pc' = [pc EXCEPT ![r] = "for_match"]
  /\ UNCHANGED << upload, contents, processed_img, results, lab_tests, line_idx,
                  pat_idx, exc, response, ran, origin >>

\* The pattern and the line after the current ones.
NextPattern(r) ==
  IF pat_idx[r] < Len(patterns)
    THEN << line_idx[r], pat_idx[r] + 1 >>
    ELSE << line_idx[r] + 1, 1 >>

\* for match in matches: the loop body for one match.  float() of a bound
\* raises ValueError out of extract_lab_tests; get_lab_tests catches it.
ForMatch(r) ==
  /\ pc[r] = "for_match"
  /\ match_idx[r] <= Len(matches[r])
  /\ LET match == matches[r][match_idx[r]].groups
     IN  \/ /\ BadCalls(match) = {}
            /\ lab_tests' = [lab_tests EXCEPT ![r] = Append(@, LabTest(match))]
            /\ origin' = [origin EXCEPT ![r] =
                            Append(@, [ line   |-> line_idx[r],
                                        form   |-> patterns[pat_idx[r]].form,
                                        start  |-> matches[r][match_idx[r]].start,
                                        groups |-> match ])]
            /\ match_idx' = [match_idx EXCEPT ![r] = @ + 1]
            /\ UNCHANGED << pc, exc, response >>
         \/ /\ BadCalls(match) # {}
            /\ Raise(r, "extract", ValueError(FirstBadToken(match)))
            /\ UNCHANGED << lab_tests, origin, match_idx >>
  /\ UNCHANGED << upload, contents, processed_img, results, line_idx, pat_idx,
                  matches, ran >>

\* The loop over matches ends: on to the next pattern, or the next line.
EndMatches(r) ==
  /\ pc[r] = "for_match"
  /\ match_idx[r] > Len(matches[r])
  /\ line_idx' = [line_idx EXCEPT ![r] = NextPattern(r)[1]]
  /\ pat_idx' = [pat_idx EXCEPT ![r] = NextPattern(r)[2]]
  /\ pc' = [pc EXCEPT ![r] = "for_pattern"]
  /\ UNCHANGED << upload, contents, processed_img, results, lab_tests, matches,
                  match_idx, exc, response, ran, origin >>

\* return lab_tests, and get_lab_tests returns the success envelope.
Return(r) ==
  /\ pc[r] = "for_pattern"
  /\ line_idx[r] > Len(results[r])
  /\ response' = [response EXCEPT ![r] =
                    Append(@, SuccessEnvelope(results[r], lab_tests[r]))]
  /\ pc' = [pc EXCEPT ![r] = "done"]
  /\ UNCHANGED << upload, contents, processed_img, results, lab_tests, line_idx,
                  pat_idx, matches, match_idx, exc, ran, origin >>

\* Requests rs arrive, each with an upload out of ups.
Arrive(rs, ups) ==
  /\ upload \in [rs -> ups]
  /\ pc = [r \in rs |-> "read"]
  /\ contents = [r \in rs |-> None]
  /\ processed_img = [r \in rs |-> None]
  /\ results = [r \in rs |-> << >>]
  /\ lab_tests = [r \in rs |-> << >>]
  /\ line_idx = [r \in rs |-> 0]
  /\ pat_idx = [r \in rs |-> 0]
  /\ matches = [r \in rs |-> << >>]
  /\ match_idx = [r \in rs |-> 0]
  /\ exc = [r \in rs |-> NoException]
  /\ response = [r \in rs |-> << >>]
  /\ ran = [r \in rs |-> << >>]
  /\ origin = [r \in rs |-> << >>]

\* One request, on any upload.
Init == Arrive({"r1"}, Uploads(Lines))

\* Two requests handled concurrently.
ConcInit == Arrive({"r1", "r2"}, Uploads(ConcLines))

Next ==
  \/ \E r \in Requests : ReadUpload(r)
  \/ \E r \in Requests : Preprocess(r)
  \/ \E r \in Requests : Recognize(r)
  \/ \E r \in Requests : ExtractStart(r)
  \/ \E r \in Requests : ForPattern(r)
  \/ \E r \in Requests : ForMatch(r)
  \/ \E r \in Requests : EndMatches(r)
  \/ \E r \in Requests : Return(r)

Spec == Init /\ [][Next]_vars

ConcSpec == ConcInit /\ [][Next]_vars

(***************************************************************************)
(* Properties.                                                             *)
(***************************************************************************)
\* The stages of the pipeline, in the order get_lab_tests runs them.
Stages == << "read", "preprocess", "recognize", "extract" >>

Done(r) == pc[r] = "done"

Failed(r) == exc[r] # NoException

\* The matches of every pattern in every line of a text, as re.findall
\* reports them.
MatchesIn(text) ==
  UNION { UNION { LET ms == re_findall(patterns[p].re, text[i])
                  IN  { [ line |-> i, form |-> patterns[p].form,
                          start |-> ms[k].start, groups |-> ms[k].groups ] :
                        k \in 1..Len(ms) } :
                  p \in 1..Len(patterns) } :
          i \in 1..Len(text) }

\* The history variable origin names, for each record, a match of a line of
\* the request's own text, and the record is the one built from its groups.
OriginSound ==
  \A r \in Requests :
    /\ Len(origin[r]) = Len(lab_tests[r])
    /\ LET found == MatchesIn(results[r])
       IN  \A k \in 1..Len(origin[r]) :
             /\ origin[r][k] \in found
             /\ lab_tests[r][k] = LabTest(origin[r][k].groups)

\* C1: when a stage of the pipeline raises (the read, preprocess_image,
\* reader.readtext or extract_lab_tests), the request gets exactly one
\* response, the failure envelope: status 500, is_success false, error the
\* exception's message, and no recognized_text or data field; the stages up
\* to the raising one each ran once and nothing ran after it.  An upload that
\* cannot be read, decoded or recognized fails in that stage.
C1_FailureEnvelope ==
  \A r \in Requests :
    /\ Failed(r) =>
         /\ Done(r)
         /\ Len(response[r]) = 1
         /\ response[r][1].status = 500
         /\ response[r][1].is_success = FALSE
         /\ response[r][1].error = exc[r].message
         /\ response[r][1].error # << >>
         /\ DOMAIN response[r][1] = {"status", "is_success", "error"}
         /\ \E n \in 1..Len(Stages) :
              ran[r] = SubSeq(Stages, 1, n) /\ Stages[n] = exc[r].stage
    /\ (Done(r) /\ ~upload[r].readable) => exc[r].stage = "read"
    /\ (Done(r) /\ upload[r].readable /\ ~upload[r].decodable) =>
         exc[r].stage = "preprocess"
    /\ (Done(r) /\ upload[r].decodable /\ ~upload[r].legible) =>
         exc[r].stage = "recognize"

\* Scenario E: an undecodable upload has been answered.
C1_Witness ==
  \E r \in Requests : upload[r] = Undecodable /\ Done(r) /\ Len(response[r]) = 1

\* C2: a record's lab_test_out_of_range is true exactly when its value token
\* parses as a float that is below the parsed min or above the parsed max of
\* the same match; a value equal to min or to max, and a value that does not
\* parse, give false.
C2_OutOfRangeFlag ==
  \A r \in Requests :
    \A k \in 1..Len(lab_tests[r]) :
      LET m    == origin[r][k].groups
          v    == strip(m[2])
          lo   == float(strip(m[4]))
          hi   == float(strip(m[5]))
          flag == lab_tests[r][k].lab_test_out_of_range
          line == results[r][origin[r][k].line]
      IN  /\ lab_tests[r][k].test_value = v
          /\ flag <=> (FloatParses(v) /\ (float(v) < lo \/ float(v) > hi))
          /\ (FloatParses(v) /\ (float(v) = lo \/ float(v) = hi)) => ~flag
          /\ ~FloatParses(v) => ~flag
          /\ line \in {ScenarioC, LineBelowMin} => flag
          /\ line \in {ScenarioA, ScenarioB, LineAtMin, LineAtMax, LineBadValue} => ~flag

\* A record whose value equals its min, one whose value is above its max and
\* one whose value does not parse have been built.
C2_Witness ==
  \E r \in Requests :
    /\ Len(lab_tests[r]) = 2
    /\ results[r] = << LineAtMin, ScenarioC >>
    /\ ~lab_tests[r][1].lab_test_out_of_range
    /\ lab_tests[r][2].lab_test_out_of_range

\* Whether the match a record is from comes before another's in the order:
\* line first, colon form before spaced form, then position in the line.
ComesBefore(a, b) ==
  \/ a.line < b.line
  \/ a.line = b.line /\ a.form = "colon" /\ b.form = "spaced"
  \/ a.line = b.line /\ a.form = b.form /\ a.start < b.start

\* C3: the records are ordered by line, within a line the colon-form records
\* come before the spaced-form ones (wherever their matches start), and
\* within a line and a form they are in left-to-right match order; this is
\* the order of the list the success envelope carries.
C3_RecordOrder ==
  \A r \in Requests :
    /\ \A j, k \in 1..Len(origin[r]) :
         j < k => ComesBefore(origin[r][j], origin[r][k])
    /\ (Done(r) /\ ~Failed(r)) =>
         /\ Len(origin[r]) = Len(response[r][1].data)
         /\ LET found == MatchesIn(results[r])
            IN  \A k \in 1..Len(origin[r]) :
                  /\ origin[r][k] \in found
                  /\ response[r][1].data[k] = LabTest(origin[r][k].groups)

\* A returned list where a spaced-form record follows a colon-form record of
\* the same line whose match starts later, and a record of the next line
\* follows both.
C3_Witness ==
  \E r \in Requests :
    /\ Done(r) /\ ~Failed(r)
    /\ Len(origin[r]) >= 3
    /\ origin[r][1].line = 1 /\ origin[r][1].form = "colon"
    /\ origin[r][2].line = 1 /\ origin[r][2].form = "spaced"
    /\ origin[r][2].start < origin[r][1].start
    /\ origin[r][3].line = 2

\* C5: when no stage raises, the stages ran once each in the order read,
\* preprocess, recognize, extract, and the one response is the success
\* envelope: status 200, is_success true, recognized_text the recognizer's
\* lines in order, data the records of extract_lab_tests on those lines in
\* order, and no error field.
C5_SuccessEnvelope ==
  \A r \in Requests :
    (Done(r) /\ ~Failed(r)) =>
      /\ ran[r] = Stages
      /\ Len(response[r]) = 1
      /\ response[r][1].status = 200
      /\ response[r][1].is_success = TRUE
      /\ response[r][1].recognized_text = upload[r].text
      /\ response[r][1].recognized_text = results[r]
      /\ response[r][1].data = lab_tests[r]
      /\ DOMAIN response[r][1] = {"status", "is_success", "recognized_text", "data"}
      /\ \A o \in MatchesIn(results[r]) : \E k \in 1..Len(origin[r]) : origin[r][k] = o

\* A request on two lines has been answered with a success envelope that
\* carries records.
C5_Witness ==
  \E r \in Requests :
    /\ Done(r) /\ ~Failed(r)
    /\ Len(response[r]) = 1
    /\ Len(response[r][1].recognized_text) = 2
    /\ Len(response[r][1].data) >= 2

\* A decimal number: digits with at most one dot, and at least one digit.
IsDecimal(tok) ==
  /\ tok # << >>
  /\ \A i \in 1..Len(tok) : tok[i] \in Digit \cup {"."}
  /\ Cardinality({i \in 1..Len(tok) : tok[i] = "."}) <= 1
  /\ \E i \in 1..Len(tok) : tok[i] \in Digit

\* C4: in every match either pattern finds, the value, min and max tokens are
\* decimal numbers: digits and at most one dot, never two or more dots and
\* never no digit at all.
C4_TokensAreDecimal ==
  \A r \in Requests :
    \A k \in 1..Len(matches[r]) :
      /\ IsDecimal(matches[r][k].groups[2])
      /\ IsDecimal(matches[r][k].groups[4])
      /\ IsDecimal(matches[r][k].groups[5])

\* Whether every record of request r is built from a match in r's own text.
OwnRecords(r) ==
  LET own == { LabTest(o.groups) :
                 o \in { m \in MatchesIn(results[r]) : BadCalls(m.groups) = {} } }
  IN  \A k \in 1..Len(lab_tests[r]) : lab_tests[r][k] \in own

\* C6: invocations share no state.  Whatever the interleaving, two requests
\* with the same upload get the same response, two extractions over the same
\* lines that are at the same point have built the same list, and every
\* record of an invocation comes from its own lines.
C6_Stateless ==
  \A r, q \in Requests :
    /\ OwnRecords(r)
    /\ (Done(r) /\ Done(q) /\ upload[r] = upload[q]) => response[r] = response[q]
    /\ ( /\ results[r] = results[q]
         /\ pc[r] = pc[q] /\ pc[r] \in {"for_pattern", "for_match", "done"}
         /\ ~Failed(r) /\ ~Failed(q)
         /\ line_idx[r] = line_idx[q] /\ pat_idx[r] = pat_idx[q]
         /\ match_idx[r] = match_idx[q] ) => lab_tests[r] = lab_tests[q]

\* Two extractions are under way at once, on different texts, and each has
\* built records.
C6_Witness ==
  \E r, q \in Requests :
    /\ r # q
    /\ pc[r] = "for_match" /\ pc[q] = "for_match"
    /\ results[r] # results[q]
    /\ lab_tests[r] # << >> /\ lab_tests[q] # << >>

\* Whether a line holds a numeric range: a digit or dot, optional whitespace,
\* a hyphen, optional whitespace, a digit or dot.
HasNumericRange(line) ==
  \E h \in 1..Len(line) :
    /\ line[h] = "-"
    /\ \E i \in 1..(h - 1) :
         line[i] \in NumCh /\ \A x \in (i + 1)..(h - 1) : line[x] \in SpaceCh
    /\ \E j \in (h + 1)..Len(line) :
         line[j] \in NumCh /\ \A x \in (h + 1)..(j - 1) : line[x] \in SpaceCh

\* Whether a line has no colon, no parenthesis and no hyphen.
IsPlain(line) == \A i \in 1..Len(line) : line[i] \notin {":", "(", ")", "-"}

\* C7: a line that holds no numeric range gets no match and no record, and so
\* does a line with no colon, no parenthesis and no hyphen, whatever the
\* other lines are.
C7_NoRangeNoRecord ==
  \A r \in Requests :
    /\ \A k \in 1..Len(origin[r]) :
         /\ HasNumericRange(results[r][origin[r][k].line])
         /\ ~IsPlain(results[r][origin[r][k].line])
    /\ (pc[r] = "for_match" /\ ~HasNumericRange(results[r][line_idx[r]])) =>
         matches[r] = << >>
    /\ (pc[r] = "for_match" /\ IsPlain(results[r][line_idx[r]])) =>
         matches[r] = << >>

\* Both patterns have been tried on a line without a range that follows a
\* line with records, and the list has not grown.
C7_Witness ==
  \E r \in Requests :
    /\ pc[r] = "for_pattern" /\ line_idx[r] = 3
    /\ results[r] = << ScenarioA, ScenarioD >>
    /\ Len(lab_tests[r]) = 1

RECURSIVE DropLeadingZeros(_)
DropLeadingZeros(ds) ==
  IF Len(ds) > 1 /\ Head(ds) = "0" THEN DropLeadingZeros(Tail(ds)) ELSE ds

\* The text C8 expects for a bound token: an integer's digits followed by
\* ".0", anything else as float and str give it.
BoundText(tok) ==
  IF \A i \in 1..Len(tok) : tok[i] \in Digit
    THEN DropLeadingZeros(tok) \o << ".", "0" >>
    ELSE float_str(float(tok))

\* C8: a record's bio_reference_range is the text of float(min), a hyphen and
\* the text of float(max) for the bound tokens of its match; a bound written
\* as an integer ends in ".0" (70-99 gives 70.0-99.0) and 13.5 - 17.5 gives
\* 13.5-17.5.
C8_ReferenceRangeText ==
  \A r \in Requests :
    \A k \in 1..Len(lab_tests[r]) :
      LET m     == origin[r][k].groups
          range == lab_tests[r][k].bio_reference_range
          line  == results[r][origin[r][k].line]
      IN  /\ range = BoundText(strip(m[4])) \o << "-" >> \o BoundText(strip(m[5]))
          /\ line = ScenarioA =>
               range = << "7","0",".","0","-","9","9",".","0" >>
          /\ line = ScenarioB =>
               range = << "1","3",".","5","-","1","7",".","5" >>
          /\ line = ScenarioC =>
               range = << "4",".","5","-","1","1",".","0" >>

\* The records of Scenario A and Scenario B have been built.
C8_Witness ==
  \E r \in Requests :
    /\ results[r] = << ScenarioA, ScenarioB >>
    /\ Len(lab_tests[r]) = 2

\* How many records request r has from line i.
RecordsOfLine(r, i) ==
  Cardinality({k \in 1..Len(origin[r]) : origin[r][k].line = i})

\* C9: once extraction is over, each line has given as many records as it has
\* colon-form matches plus spaced-form matches.
C9_RecordPerMatch ==
  \A r \in Requests :
    (Done(r) /\ "extract" \in {ran[r][n] : n \in 1..Len(ran[r])}) =>
      \A i \in 1..Len(results[r]) :
        RecordsOfLine(r, i) =
          Len(re_findall(ColonForm, results[r][i]))
            + Len(re_findall(SpacedForm, results[r][i]))

\* Whether a match has a bound token float() rejects.
HasBadBound(o) == ~FloatParses(strip(o.groups[4])) \/ ~FloatParses(strip(o.groups[5]))

\* C10: if any match of any line has a min or max token that does not parse,
\* the request ends in the failure envelope, which carries no record; a match
\* whose value token does not parse and whose bounds do never raises: it
\* gives a record with lab_test_out_of_range false.
C10_AllOrNothing ==
  \A r \in Requests :
    /\ ( /\ Done(r)
         /\ "extract" \in {ran[r][n] : n \in 1..Len(ran[r])}
         /\ \E o \in MatchesIn(results[r]) : HasBadBound(o) ) =>
           /\ exc[r].stage = "extract"
           /\ \E o \in MatchesIn(results[r]) :
                /\ HasBadBound(o)
                /\ exc[r].message \in { ValueError(strip(o.groups[4])),
                                        ValueError(strip(o.groups[5])) }
           /\ response[r] = << [status |-> 500, is_success |-> FALSE,
                                error |-> exc[r].message] >>
    /\ (pc[r] = "for_match" \/ exc[r].stage = "extract") =>
         \A k \in 1..Len(matches[r]) :
           ( /\ k < match_idx[r]
             /\ ~FloatParses(strip(matches[r][k].groups[2])) ) =>
               LET j == Len(lab_tests[r]) - (match_idx[r] - 1 - k)
               IN  /\ j >= 1
                   /\ lab_tests[r][j].test_value = strip(matches[r][k].groups[2])
                   /\ lab_tests[r][j].lab_test_out_of_range = FALSE
                   /\ origin[r][j].groups = matches[r][k].groups
    /\ exc[r].stage = "extract" => HasBadBound(matches[r][match_idx[r]])

\* A request failed on a bound that does not parse after a record had been
\* built from an earlier match, and its response carries no record.
C10_Witness ==
  \E r \in Requests :
    /\ Done(r) /\ exc[r].stage = "extract"
    /\ lab_tests[r] # << >>
    /\ DOMAIN response[r][1] = {"status", "is_success", "error"}

=============================================================================
